---- MODULE Spec2Model ----
(***************************************************************************)
(* Model of the exam-practice application of src/src/App.tsx: the React    *)
(* state of the App component (view, currentExam, currentQuestionIdx,      *)
(* userAnswers, timeElapsed, isReviewMode), the interval timer installed   *)
(* by its effect, and one action per event handler.                        *)
(*                                                                         *)
(* Each action is one browser event processed to completion: the handler,  *)
(* the state updates it queues, the re-render and the timer effect that    *)
(* follows the render (the effect depends on view and isReviewMode).       *)
(*                                                                         *)
(* Handlers are modelled with their own guards; they can be invoked        *)
(* whenever the view that carries their button is rendered.  The           *)
(* `disabled` attributes of the buttons repeat the handlers' guards and    *)
(* are not modelled as a second guard.                                     *)
(***************************************************************************)
EXTENDS Integers, Sequences, FiniteSets, TLC

\* ------------------------------------------------------------------ bounds
\* the timer is stopped from counting beyond MaxTime seconds
MaxTime == 2
\* the largest number of questions the score computation is tried on
MaxTotal == 40
\* the longest elapsed time, in seconds, the clock is rendered for (besides
\* the few long runs of LongTimes)
MaxSeconds == 3700

\* ------------------------------------------------------------ question bank
\* A Question record (interface Question); texts and explanation are not
\* part of any state transition and are left out.
Question(id, type, options, correctAnswers) ==
    [id |-> id, type |-> type, options |-> options, correctAnswers |-> correctAnswers]

\* The question bank: two sets.  Set 1 is the two-question set used in the
\* examples (a single-select and a multiple-select question); set 2 reuses
\* question id 101 with another type, so that state leaking from one
\* attempt into the next would be visible.
EXAM_DATA ==
    << [id |-> 1,
        questions |-> << Question(101, "single",   <<"A", "B">>,      <<"B">>),
                         Question(102, "multiple", <<"A", "B", "C">>, <<"A", "C">>) >>],
       [id |-> 2,
        questions |-> << Question(101, "multiple", <<"A", "B">>,      <<"B", "A">>) >>] >>

\* currentExam = NoExam models the null reference
NoExam == 0
ExamIds == 1..Len(EXAM_DATA)

VARIABLES
    view,                \* 'home' | 'exam' | 'result'
    currentExam,         \* NoExam or an index into EXAM_DATA
    currentQuestionIdx,  \* 0-based index into the questions of the exam
    userAnswers,         \* Record<number, string[]>: question id -> array of option ids
    timeElapsed,         \* seconds
    isReviewMode,        \* boolean
    timerRunning,        \* an interval installed by the timer effect is live
    \* history variables (observers, never read by the program)
    op,                  \* the last event processed
    prevAnswers,         \* userAnswers before the last event
    ticks,               \* interval callbacks delivered since the last start
    \* the score computation on its own (specification ScoreSpec)
    tally,               \* [correctCount, totalQ] handed to the computation
    shown,               \* the percentage computed from tally, NotShown before
    \* the rendering of the clock on its own (specification FormatSpec)
    clock                \* the text rendered for timeElapsed, NotRendered before

vars == <<view, currentExam, currentQuestionIdx, userAnswers, timeElapsed,
          isReviewMode, timerRunning, op, prevAnswers, ticks, tally, shown, clock>>

\* the React state of the component, without the history variables
appState == <<view, currentExam, currentQuestionIdx, userAnswers, timeElapsed,
              isReviewMode, timerRunning>>

\* ---------------------------------------------------------------- helpers
Op(name, exam, q, o, ok, idx) ==
    [name |-> name, exam |-> exam, q |-> q, o |-> o, ok |-> ok, idx |-> idx]

EmptyAnswers == [k \in {} |-> <<>>]

\* arr.includes(x)
includes(arr, x) == \E i \in 1..Len(arr) : arr[i] = x

\* arr.filter(id => id !== x)
filterOut(arr, x) == SelectSeq(arr, LAMBDA e : e # x)

\* prev[qId] || []
Selected(answers, qId) == IF qId \in DOMAIN answers THEN answers[qId] ELSE <<>>

\* { ...prev, [qId]: v }
Put(prev, qId, v) == [k \in (DOMAIN prev) \cup {qId} |-> IF k = qId THEN v ELSE prev[k]]

\* const { [qId]: _, ...rest } = prev
Omit(prev, qId) == [k \in (DOMAIN prev) \ {qId} |-> prev[k]]

\* the option ids of an array, as a set
AsSet(arr) == {arr[i] : i \in 1..Len(arr)}

Questions == EXAM_DATA[currentExam].questions
currentQ == Questions[currentQuestionIdx + 1]

\* Object.keys(userAnswers).length
answeredCount == Cardinality(DOMAIN userAnswers)

\* variant of getQuestionStatus that compares the two arrays position by
\* position
getQuestionStatus_ordered(q) ==
    LET userAnswer == Selected(userAnswers, q.id)
        isSkipped == Len(userAnswer) = 0
    IN [isCorrect |-> userAnswer = q.correctAnswers,
        isSkipped |-> isSkipped, isAnswered |-> ~isSkipped]

\* getQuestionStatus(q), lines 131-137
getQuestionStatus(q) ==
    LET userAnswer == Selected(userAnswers, q.id)
        isCorrect == /\ Len(q.correctAnswers) = Len(userAnswer)
                     /\ \A i \in 1..Len(q.correctAnswers) :
                            includes(userAnswer, q.correctAnswers[i])
        isSkipped == Len(userAnswer) = 0
    IN [isCorrect |-> isCorrect, isSkipped |-> isSkipped, isAnswered |-> ~isSkipped]

\* ----------------------------------------------------------------- score
\* The score of the result dashboard, lines 177-179:
\*     Math.round((correctCount / totalQ) * 100)
\* computed as the code computes it, in IEEE-754 binary64: the quotient is
\* rounded to 53 significant bits, the product by 100 is rounded to 53
\* significant bits again, and Math.round rounds the result to the nearest
\* integer, halves upwards.

\* significand width of a binary64 number
Precision == 53

\* A natural number too large for one machine integer of the checker is a
\* sequence of limbs of LimbBits bits, least significant first.
LimbBits == 11
Base == 2^LimbBits

Limb(N, i) == IF i \in 1..Len(N) THEN N[i] ELSE 0

\* bit i of N, bit 0 the lowest
Bit(N, i) == (Limb(N, (i \div LimbBits) + 1) \div 2^(i % LimbBits)) % 2

\* N without its leading zero limbs
Trim(N) ==
    LET used == {i \in 1..Len(N) : N[i] # 0}
    IN IF used = {} THEN <<>>
       ELSE SubSeq(N, 1, CHOOSE i \in used : \A j \in used : j <= i)

\* the number of bits of N
BitLength(N) ==
    LET T == Trim(N)
    IN IF Len(T) = 0 THEN 0
       ELSE (Len(T) - 1) * LimbBits
            + (CHOOSE b \in 1..LimbBits : 2^(b - 1) <= T[Len(T)] /\ T[Len(T)] < 2^b)

\* N shifted right by d bits
ShiftRight(N, d) ==
    LET w == d \div LimbBits
        b == d % LimbBits
    IN Trim([i \in 1..(IF Len(N) > w THEN Len(N) - w ELSE 0) |->
                (Limb(N, i + w) \div 2^b) + (Limb(N, i + w + 1) % 2^b) * 2^(LimbBits - b)])

\* N * m + carry, for small m and carry
RECURSIVE MulAdd(_, _, _)
MulAdd(N, m, carry) ==
    IF Len(N) = 0
    THEN IF carry = 0 THEN <<>> ELSE <<carry % Base>> \o MulAdd(N, m, carry \div Base)
    ELSE LET v == Head(N) * m + carry
         IN <<v % Base>> \o MulAdd(Tail(N), m, v \div Base)

\* the value of a number of at most two limbs
ToInt(N) == Limb(N, 1) + Base * Limb(N, 2)

\* long division: the first n limbs of r / t after the point, for r < t,
\* and the remainder that is left
RECURSIVE DivLimbs(_, _, _)
DivLimbs(r, t, n) ==
    IF n = 0 THEN [limbs |-> <<>>, rem |-> r]
    ELSE LET rest == DivLimbs((r * Base) % t, t, n - 1)
         IN [limbs |-> Append(rest.limbs, (r * Base) \div t), rem |-> rest.rem]

\* A binary64 value is limbs * 2^(-frac).  Round to nearest, ties to even,
\* to Precision significant bits; sticky tells that the exact value lies
\* above the limbs given.
RoundNearestEven(x) ==
    LET d == BitLength(x.limbs) - Precision
        kept == ShiftRight(x.limbs, d)
        half == d > 0 /\ Bit(x.limbs, d - 1) = 1
        rest == x.sticky \/ \E i \in 0..(d - 2) : Bit(x.limbs, i) = 1
        up == half /\ (rest \/ Bit(kept, 0) = 1)
        inc == MulAdd(kept, 1, 1)
    IN IF ~up THEN [limbs |-> kept, frac |-> x.frac - d]
       ELSE IF BitLength(inc) = Precision THEN [limbs |-> inc, frac |-> x.frac - d]
       ELSE [limbs |-> ShiftRight(inc, 1), frac |-> x.frac - d - 1]

\* correctCount / totalQ for 0 < correctCount < totalQ: the quotient is
\* taken to Precision + 2 bits from its first 1 bit on, then rounded
Quotient(c, t) ==
    LET k == CHOOSE n \in 1..LimbBits : c * 2^n >= t /\ c * 2^(n - 1) < t
        q == DivLimbs(c * 2^(k - 1), t, 5)
    IN RoundNearestEven([limbs |-> q.limbs, frac |-> 5 * LimbBits + k - 1,
                         sticky |-> (q.rem # 0)])

\* x * 100
Times100(x) ==
    RoundNearestEven([limbs |-> MulAdd(x.limbs, 100, 0), frac |-> x.frac,
                      sticky |-> FALSE])

\* Math.round(x) for 0 < x: the integer part, plus one when the first bit
\* after the binary point is set
MathRound(x) == ToInt(ShiftRight(x.limbs, x.frac)) + Bit(x.limbs, x.frac - 1)

\* Math.round((correctCount / totalQ) * 100); 0 / totalQ is 0 and
\* totalQ / totalQ is 1, both exact
Percentage(c, t) ==
    IF c = 0 THEN 0
    ELSE IF c = t THEN 100
    ELSE MathRound(Times100(Quotient(c, t)))

\* shown before the score has been computed
NotShown == 0 - 1

\* the result dashboard of the open set, lines 177-179
totalQ == Len(Questions)
correctCount == Cardinality({i \in 1..Len(Questions) : getQuestionStatus(Questions[i]).isCorrect})
\* the percentages of every tally over the sets of the bank, computed once
MaxQuestions ==
    LET sizes == {Len(EXAM_DATA[e].questions) : e \in ExamIds}
    IN CHOOSE n \in sizes : \A m \in sizes : m <= n
Percentages == [t \in 1..MaxQuestions |-> [c \in 0..t |-> Percentage(c, t)]]
score == Percentages[totalQ][correctCount]

\* ----------------------------------------------------------------- clock
\* formatTime, lines 37-43.  A string is the sequence of its characters.

\* the decimal digit d as a character
Digit(d) == <<"0", "1", "2", "3", "4", "5", "6", "7", "8", "9">>[d + 1]

\* n.toString() for an integer n >= 0
RECURSIVE toString(_)
toString(n) ==
    IF n < 10 THEN <<Digit(n)>> ELSE Append(toString(n \div 10), Digit(n % 10))

\* str.padStart(len, '0')
RECURSIVE padStart(_, _)
padStart(str, len) == IF Len(str) >= len THEN str ELSE padStart(<<"0">> \o str, len)

\* variant of formatTime that takes the minutes of the whole time
formatTime_totalMinutes(seconds) ==
    LET h == seconds \div 3600
        m == seconds \div 60
        sec == seconds % 60
    IN IF h > 0
       THEN toString(h) \o <<":">> \o padStart(toString(m), 2)
                        \o <<":">> \o padStart(toString(sec), 2)
       ELSE padStart(toString(m), 2) \o <<":">> \o padStart(toString(sec), 2)

formatTime(seconds) ==
    LET h == seconds \div 3600
        m == (seconds % 3600) \div 60
        sec == seconds % 60
    IN IF h > 0
       THEN toString(h) \o <<":">> \o padStart(toString(m), 2)
                        \o <<":">> \o padStart(toString(sec), 2)
       ELSE padStart(toString(m), 2) \o <<":">> \o padStart(toString(sec), 2)

\* clock before the time has been rendered
NotRendered == <<>>

\* ----------------------------------------------------------------- timer
\* The effect of lines 55-61, run after every render in which view or
\* isReviewMode changed: the previous interval is cleared and a new one is
\* installed exactly when the exam view is shown outside review mode.
TimerEffect_noReviewCheck(v, review) == (v = "exam")

\* variant of the effect with the review test the wrong way round
TimerEffect_inverted(v, review) == (v = "exam" /\ review)

TimerEffect(v, review) == (v = "exam" /\ ~review)

\* the updater of the interval callback, (prev) => prev + 1; the variant
\* reads the value the callback closed over when the interval was
\* installed (0, straight after a start)
TickUpdater_stale(prev) == 0 + 1

TickUpdater(prev) == prev + 1

\* ---------------------------------------------------------------- actions
\* variants of the updater: a single-select question handled as a toggle
\* list, a single-select question that deselects, a removal that drops the
\* whole entry, and a removal that keeps an empty entry
SelectUpdater_toggleAlways(prev, qId, optionId, type) ==
    LET currentSelected == Selected(prev, qId) IN
    IF includes(currentSelected, optionId)
    THEN LET newSelection == filterOut(currentSelected, optionId) IN
         IF Len(newSelection) = 0 THEN Omit(prev, qId) ELSE Put(prev, qId, newSelection)
    ELSE Put(prev, qId, Append(currentSelected, optionId))

SelectUpdater_singleDeselect(prev, qId, optionId, type) ==
    LET currentSelected == Selected(prev, qId) IN
    IF includes(currentSelected, optionId)
    THEN LET newSelection == filterOut(currentSelected, optionId) IN
         IF Len(newSelection) = 0 THEN Omit(prev, qId) ELSE Put(prev, qId, newSelection)
    ELSE IF type = "single"
         THEN Put(prev, qId, <<optionId>>)
         ELSE Put(prev, qId, Append(currentSelected, optionId))

SelectUpdater_removeClears(prev, qId, optionId, type) ==
    LET currentSelected == Selected(prev, qId) IN
    IF type = "single"
    THEN Put(prev, qId, <<optionId>>)
    ELSE IF includes(currentSelected, optionId)
         THEN Omit(prev, qId)
         ELSE Put(prev, qId, Append(currentSelected, optionId))

SelectUpdater_keepEmpty(prev, qId, optionId, type) ==
    LET currentSelected == Selected(prev, qId) IN
    IF type = "single"
    THEN Put(prev, qId, <<optionId>>)
    ELSE IF includes(currentSelected, optionId)
         THEN Put(prev, qId, filterOut(currentSelected, optionId))
         ELSE Put(prev, qId, Append(currentSelected, optionId))

\* variant of the updater that builds the new mapping without the old one
SelectUpdater_dropOthers(prev, qId, optionId, type) ==
    LET currentSelected == Selected(prev, qId) IN
    IF type = "single"
    THEN Put(EmptyAnswers, qId, <<optionId>>)
    ELSE IF includes(currentSelected, optionId)
         THEN LET newSelection == filterOut(currentSelected, optionId) IN
              IF Len(newSelection) = 0
              THEN Omit(prev, qId)
              ELSE Put(prev, qId, newSelection)
         ELSE Put(prev, qId, Append(currentSelected, optionId))

\* the updater passed to setUserAnswers
SelectUpdater(prev, qId, optionId, type) ==
    LET currentSelected == Selected(prev, qId) IN
    IF type = "single"
    THEN Put(prev, qId, <<optionId>>)
    ELSE IF includes(currentSelected, optionId)
         THEN LET newSelection == filterOut(currentSelected, optionId) IN
              IF Len(newSelection) = 0
              THEN Omit(prev, qId)
              ELSE Put(prev, qId, newSelection)
         ELSE Put(prev, qId, Append(currentSelected, optionId))

\* variants of the start handler: one reset left out
handleStartExam_keepAnswers(exam) ==
    /\ currentExam' = exam
    /\ currentQuestionIdx' = 0
    /\ timeElapsed' = 0
    /\ isReviewMode' = FALSE
    /\ view' = "exam"
    /\ UNCHANGED userAnswers

handleStartExam_keepReview(exam) ==
    /\ currentExam' = exam
    /\ currentQuestionIdx' = 0
    /\ userAnswers' = EmptyAnswers
    /\ timeElapsed' = 0
    /\ view' = "exam"
    /\ UNCHANGED isReviewMode

handleStartExam(exam) ==
    /\ currentExam' = exam
    /\ currentQuestionIdx' = 0
    /\ userAnswers' = EmptyAnswers
    /\ timeElapsed' = 0
    /\ isReviewMode' = FALSE
    /\ view' = "exam"

\* variant of the option handler without the review-mode return
handleOptionSelect_noGuard(qId, optionId, type) ==
    /\ userAnswers' = SelectUpdater(userAnswers, qId, optionId, type)
    /\ UNCHANGED <<view, currentExam, currentQuestionIdx, timeElapsed, isReviewMode>>

handleOptionSelect(qId, optionId, type) ==
    /\ userAnswers' = IF isReviewMode
                      THEN userAnswers
                      ELSE SelectUpdater(userAnswers, qId, optionId, type)
    /\ UNCHANGED <<view, currentExam, currentQuestionIdx, timeElapsed, isReviewMode>>

\* variants of the step handlers without their range test
handleNext_noBound ==
    /\ currentQuestionIdx' = currentQuestionIdx + 1
    /\ UNCHANGED <<view, currentExam, userAnswers, timeElapsed, isReviewMode>>

handlePrev_noBound ==
    /\ currentQuestionIdx' = currentQuestionIdx - 1
    /\ UNCHANGED <<view, currentExam, userAnswers, timeElapsed, isReviewMode>>

handleNext ==
    /\ currentQuestionIdx' =
          IF currentExam # NoExam /\ currentQuestionIdx < Len(Questions) - 1
          THEN currentQuestionIdx + 1
          ELSE currentQuestionIdx
    /\ UNCHANGED <<view, currentExam, userAnswers, timeElapsed, isReviewMode>>

handlePrev ==
    /\ currentQuestionIdx' =
          IF currentQuestionIdx > 0 THEN currentQuestionIdx - 1 ELSE currentQuestionIdx
    /\ UNCHANGED <<view, currentExam, userAnswers, timeElapsed, isReviewMode>>

\* variant of the submit handler that does not look at the answer
handleSubmitExam_ignoreConfirm(confirmed) ==
    /\ view' = "result"
    /\ isReviewMode' = TRUE
    /\ UNCHANGED <<currentExam, currentQuestionIdx, userAnswers, timeElapsed>>

\* variant of the submit handler that shows the results without entering
\* review mode
handleSubmitExam_noReviewFlag(confirmed) ==
    IF currentExam # NoExam /\ ~confirmed
    THEN UNCHANGED <<view, currentExam, currentQuestionIdx, userAnswers,
                     timeElapsed, isReviewMode>>
    ELSE /\ view' = "result"
         /\ UNCHANGED <<isReviewMode, currentExam, currentQuestionIdx, userAnswers,
                        timeElapsed>>

\* confirmed is the answer of window.confirm
handleSubmitExam(confirmed) ==
    IF currentExam # NoExam /\ ~confirmed
    THEN UNCHANGED <<view, currentExam, currentQuestionIdx, userAnswers,
                     timeElapsed, isReviewMode>>
    ELSE /\ view' = "result"
         /\ isReviewMode' = TRUE
         /\ UNCHANGED <<currentExam, currentQuestionIdx, userAnswers, timeElapsed>>

\* variants of the jump handler: one that also enters review mode, one that
\* leaves review mode, one that locks the questions outside review mode
handleReviewQuestion_setsReview(index) ==
    /\ currentQuestionIdx' = index
    /\ view' = "exam"
    /\ isReviewMode' = TRUE
    /\ UNCHANGED <<currentExam, userAnswers, timeElapsed>>

handleReviewQuestion_reopens(index) ==
    /\ currentQuestionIdx' = index
    /\ view' = "exam"
    /\ isReviewMode' = FALSE
    /\ UNCHANGED <<currentExam, userAnswers, timeElapsed>>

handleReviewQuestion_lockedActive(index) ==
    /\ currentQuestionIdx' = IF isReviewMode THEN index ELSE currentQuestionIdx
    /\ view' = "exam"
    /\ UNCHANGED <<currentExam, userAnswers, timeElapsed, isReviewMode>>

handleReviewQuestion(index) ==
    /\ currentQuestionIdx' = index
    /\ view' = "exam"
    /\ UNCHANGED <<currentExam, userAnswers, timeElapsed, isReviewMode>>

handleGoHome ==
    /\ view' = "home"
    /\ currentExam' = NoExam
    /\ UNCHANGED <<currentQuestionIdx, userAnswers, timeElapsed, isReviewMode>>

\* what every event does besides its handler: the timer effect after the
\* render, and the history variables
Event(o) ==
    /\ timerRunning' = TimerEffect(view', isReviewMode')
    /\ op' = o
    /\ prevAnswers' = userAnswers
    /\ UNCHANGED <<tally, shown, clock>>

\* the views, as the render function selects them
HomeView == view = "home"
ResultView == view = "result" /\ currentExam # NoExam
ExamView == view = "exam" /\ currentExam # NoExam

\* home view: a set is picked
StartExam ==
    /\ HomeView
    /\ \E e \in ExamIds :
          /\ handleStartExam(e)
          /\ Event(Op("start", e, 0, "", TRUE, 0))
    /\ ticks' = 0

\* variant of the option button that passes the position of the question
\* where its id is expected
SelectOption_keyByIndex ==
    /\ view = "exam" /\ currentExam # NoExam
    /\ \E i \in 1..Len(currentQ.options) :
          /\ handleOptionSelect(currentQuestionIdx, currentQ.options[i], currentQ.type)
          /\ timerRunning' = TimerEffect(view', isReviewMode')
          /\ op' = Op("select", currentExam, currentQ.id, currentQ.options[i], TRUE, 0)
          /\ prevAnswers' = userAnswers
          /\ UNCHANGED <<tally, shown, clock>>
    /\ UNCHANGED ticks

\* exam view: an option button of the current question
SelectOption ==
    /\ ExamView
    /\ \E i \in 1..Len(currentQ.options) :
          /\ handleOptionSelect(currentQ.id, currentQ.options[i], currentQ.type)
          /\ Event(Op("select", currentExam, currentQ.id, currentQ.options[i], TRUE, 0))
    /\ UNCHANGED ticks

\* exam view: Next
NextQuestion ==
    /\ ExamView
    /\ handleNext
    /\ Event(Op("next", currentExam, 0, "", TRUE, 0))
    /\ UNCHANGED ticks

\* exam view: Previous
PrevQuestion ==
    /\ ExamView
    /\ handlePrev
    /\ Event(Op("prev", currentExam, 0, "", TRUE, 0))
    /\ UNCHANGED ticks

\* exam view: a button of the question palette
PaletteJump ==
    /\ ExamView
    /\ \E idx \in 0..(Len(Questions) - 1) :
          /\ handleReviewQuestion(idx)
          /\ Event(Op("goto", currentExam, 0, "", TRUE, idx))
    /\ UNCHANGED ticks

\* exam view outside review mode: Submit
SubmitExam ==
    /\ ExamView
    /\ ~isReviewMode
    /\ \E confirmed \in BOOLEAN :
          /\ handleSubmitExam(confirmed)
          /\ Event(Op("submit", currentExam, 0, "", confirmed, 0))
    /\ UNCHANGED ticks

\* result view: Review Answers
ReviewAnswers ==
    /\ ResultView
    /\ handleReviewQuestion(0)
    /\ Event(Op("review", currentExam, 0, "", TRUE, 0))
    /\ UNCHANGED ticks

\* result view: Back to Home; exam view in review mode: Finish Review
GoHome ==
    /\ ResultView \/ (ExamView /\ isReviewMode)
    /\ handleGoHome
    /\ Event(Op("home", currentExam, 0, "", TRUE, 0))
    /\ UNCHANGED ticks

\* variant of the back arrow that leaves whatever the answer
BackButton_alwaysLeaves ==
    /\ view = "exam" /\ currentExam # NoExam
    /\ \E confirmed \in BOOLEAN :
          /\ handleGoHome
          /\ timerRunning' = TimerEffect(view', isReviewMode')
          /\ op' = Op("back", currentExam, 0, "", isReviewMode \/ confirmed, 0)
          /\ prevAnswers' = userAnswers
          /\ UNCHANGED <<tally, shown, clock>>
    /\ UNCHANGED ticks

\* exam view: the back arrow of the header
BackButton ==
    /\ ExamView
    /\ \E confirmed \in BOOLEAN :
          /\ IF isReviewMode \/ confirmed
             THEN handleGoHome
             ELSE UNCHANGED <<view, currentExam, currentQuestionIdx, userAnswers,
                              timeElapsed, isReviewMode>>
          /\ Event(Op("back", currentExam, 0, "", isReviewMode \/ confirmed, 0))
    /\ UNCHANGED ticks

\* the interval callback: setTimeElapsed(prev => prev + 1)
Tick ==
    /\ timerRunning
    /\ timeElapsed < MaxTime
    /\ ticks < MaxTime
    /\ timeElapsed' = TickUpdater(timeElapsed)
    /\ UNCHANGED <<view, currentExam, currentQuestionIdx, userAnswers, isReviewMode>>
    /\ Event(Op("tick", currentExam, 0, "", TRUE, 0))
    /\ ticks' = ticks + 1

Init ==
    /\ view = "home"
    /\ currentExam = NoExam
    /\ currentQuestionIdx = 0
    /\ userAnswers = EmptyAnswers
    /\ timeElapsed = 0
    /\ isReviewMode = FALSE
    /\ timerRunning = TimerEffect("home", FALSE)
    /\ op = Op("init", NoExam, 0, "", TRUE, 0)
    /\ prevAnswers = EmptyAnswers
    /\ ticks = 0
    /\ tally = [correctCount |-> 0, totalQ |-> 1]
    /\ shown = NotShown
    /\ clock = NotRendered

Next ==
    \/ StartExam
    \/ SelectOption
    \/ NextQuestion
    \/ PrevQuestion
    \/ PaletteJump
    \/ SubmitExam
    \/ ReviewAnswers
    \/ GoHome
    \/ BackButton
    \/ Tick

Spec == Init /\ [][Next]_vars

\* A live interval delivers its callback every second: a tick that stays
\* enabled is eventually delivered.
FairSpec == Spec /\ WF_vars(Tick)

\* ------------------------------------------------- the score, on its own
\* The score computation applied to every tally of correct answers over
\* sets of up to MaxTotal questions.
ScoreInit ==
    /\ view = "result"
    /\ currentExam = 1
    /\ currentQuestionIdx = 0
    /\ userAnswers = EmptyAnswers
    /\ timeElapsed = 0
    /\ isReviewMode = TRUE
    /\ timerRunning = TimerEffect("result", TRUE)
    /\ op = Op("submit", 1, 0, "", TRUE, 0)
    /\ prevAnswers = EmptyAnswers
    /\ ticks = 0
    /\ tally \in {[correctCount |-> c, totalQ |-> t] :
                     c \in 0..MaxTotal, t \in 1..MaxTotal}
    /\ tally.correctCount <= tally.totalQ
    /\ shown = NotShown
    /\ clock = NotRendered

\* the result dashboard renders the score
ShowScore ==
    /\ shown = NotShown
    /\ shown' = Percentage(tally.correctCount, tally.totalQ)
    /\ UNCHANGED <<view, currentExam, currentQuestionIdx, userAnswers, timeElapsed,
                   isReviewMode, timerRunning, op, prevAnswers, ticks, tally, clock>>

ScoreNext == ShowScore

ScoreSpec == ScoreInit /\ [][ScoreNext]_vars

\* ------------------------------------------------- the clock, on its own
\* formatTime applied to every elapsed time up to MaxSeconds and to a few
\* long runs of ten hours and more.
LongTimes == {35999, 36000, 86399, 86400, 359999, 360000}

FormatInit ==
    /\ view = "exam"
    /\ currentExam = 1
    /\ currentQuestionIdx = 0
    /\ userAnswers = EmptyAnswers
    /\ timeElapsed \in (0..MaxSeconds) \cup LongTimes
    /\ isReviewMode = FALSE
    /\ timerRunning = TimerEffect("exam", FALSE)
    /\ op = Op("tick", 1, 0, "", TRUE, 0)
    /\ prevAnswers = EmptyAnswers
    /\ ticks = timeElapsed
    /\ tally = [correctCount |-> 0, totalQ |-> 1]
    /\ shown = NotShown
    /\ clock = NotRendered

\* the header renders the clock
RenderClock ==
    /\ clock = NotRendered
    /\ clock' = formatTime(timeElapsed)
    /\ UNCHANGED <<view, currentExam, currentQuestionIdx, userAnswers, timeElapsed,
                   isReviewMode, timerRunning, op, prevAnswers, ticks, tally, shown>>

FormatNext == RenderClock

FormatSpec == FormatInit /\ [][FormatNext]_vars

TypeOK ==
    /\ view \in {"home", "exam", "result"}
    /\ currentExam \in {NoExam} \cup ExamIds
    /\ currentQuestionIdx \in Nat
    /\ timeElapsed \in 0..MaxTime
    /\ isReviewMode \in BOOLEAN
    /\ timerRunning \in BOOLEAN

\* -------------------------------------------------------------- rendering
\* which of the two confirmation messages handleSubmitExam asks with, lines
\* 109-115: the one that counts the answers, or the plain one
submitPrompt ==
    LET total == Len(Questions)
    IN IF answeredCount < total THEN "answered-of-total" ELSE "confirm-submission"

\* const currentSelected = userAnswers[currentQ.id] || []
currentSelected == Selected(userAnswers, currentQ.id)

\* variant of getOptionClasses that tests the selection before the
\* correctness in review mode
getOptionClasses_selectedFirst(optionId) ==
    LET isSelected == includes(currentSelected, optionId) IN
    IF isReviewMode
    THEN LET isCorrect == includes(currentQ.correctAnswers, optionId) IN
         IF isSelected THEN "incorrect-selected"
         ELSE IF isCorrect THEN "correct"
         ELSE "neutral-dimmed"
    ELSE IF isSelected THEN "selected" ELSE "default"

\* getOptionClasses(optionId), lines 220-232.  The class lists it returns
\* are named after what they show: green border "correct", red border
\* "incorrect-selected", greyed out "neutral-dimmed", indigo border
\* "selected", white "default".
getOptionClasses(optionId) ==
    LET isSelected == includes(currentSelected, optionId) IN
    IF isReviewMode
    THEN LET isCorrect == includes(currentQ.correctAnswers, optionId) IN
         IF isCorrect THEN "correct"
         ELSE IF isSelected /\ ~isCorrect THEN "incorrect-selected"
         ELSE "neutral-dimmed"
    ELSE IF isSelected THEN "selected" ELSE "default"

\* ------------------------------------------------------------ properties
\* the question with id qId in set e
QuestionOf(e, qId) ==
    LET qs == EXAM_DATA[e].questions
    IN qs[CHOOSE i \in 1..Len(qs) : qs[i].id = qId]

\* the last event was a click on option op.o of question op.q of the
\* given type while the session was not in review mode
SelectedActive(type) ==
    /\ op.name = "select"
    /\ ~isReviewMode
    /\ QuestionOf(op.exam, op.q).type = type

Toggle(S, o) == IF o \in S THEN S \ {o} ELSE S \cup {o}

\* C1: once the session is in review mode, a call of the option handler
\* leaves userAnswers as it was, for every question and option and however
\* many calls are made.
C1_ReviewSelectIsNoOp ==
    [][(isReviewMode /\ op'.name = "select") => userAnswers' = userAnswers]_vars

\* the option handler has been called in review mode on an answered set
C1_Witness ==
    /\ isReviewMode
    /\ view = "exam"
    /\ op.name = "select"
    /\ op.q \notin DOMAIN userAnswers
    /\ userAnswers # EmptyAnswers

\* C2: in every reachable state, every single-select question of the current
\* set has at most one selected option.
C2_SingleAtMostOne ==
    currentExam # NoExam =>
        \A i \in 1..Len(Questions) :
            Questions[i].type = "single" =>
                Len(Selected(userAnswers, Questions[i].id)) <= 1

\* a single-select question answered "A" has just been answered "B"
C2_Witness ==
    /\ SelectedActive("single")
    /\ Selected(prevAnswers, op.q) = <<"A">>
    /\ Selected(userAnswers, op.q) = <<"B">>

\* C3: outside review mode, selecting option o of a single-select question
\* leaves exactly <<o>> as its answer whatever the answer was before, and
\* an answered single-select question stays answered until a new attempt
\* is started.
C3_SingleReplaces ==
    /\ [](SelectedActive("single") => Selected(userAnswers, op.q) = <<op.o>>)
    /\ [][(/\ currentExam # NoExam
           /\ op'.name # "start"
           /\ currentExam' # NoExam)
          => \A i \in 1..Len(Questions) :
                (Questions[i].type = "single" /\ Questions[i].id \in DOMAIN userAnswers)
                    => Questions[i].id \in DOMAIN userAnswers']_vars

\* the selected option of a single-select question has been clicked again
C3_Witness ==
    /\ SelectedActive("single")
    /\ Selected(prevAnswers, op.q) = <<op.o>>
    /\ Selected(userAnswers, op.q) = <<op.o>>

\* C4: outside review mode, clicking the same option of a multiple-select
\* question twice in a row brings the set of selected options of that
\* question back to what it was before the two clicks (unanswered included).
C4_DoubleToggleRestores ==
    [][(/\ SelectedActive("multiple")
        /\ op'.name = "select"
        /\ op'.q = op.q
        /\ op'.o = op.o)
       => AsSet(Selected(userAnswers', op.q)) = AsSet(Selected(prevAnswers, op.q))]_vars

\* an option was clicked twice in a row while another one was selected
C4_Witness ==
    /\ SelectedActive("multiple")
    /\ Len(Selected(userAnswers, op.q)) = 2
    /\ Len(Selected(prevAnswers, op.q)) = 1
    /\ Selected(userAnswers, op.q)[2] = op.o
    /\ Selected(userAnswers, op.q)[1] = "B"

\* C5: outside review mode, a click on an option of a multiple-select
\* question toggles the membership of that option and of no other, and no
\* entry of userAnswers ever holds an empty array.
C5_ToggleAndNormalise ==
    /\ \A k \in DOMAIN userAnswers : Len(userAnswers[k]) > 0
    /\ SelectedActive("multiple") =>
          AsSet(Selected(userAnswers, op.q)) =
              Toggle(AsSet(Selected(prevAnswers, op.q)), op.o)

\* the only selected option of a multiple-select question was toggled off
C5_Witness ==
    /\ SelectedActive("multiple")
    /\ Selected(prevAnswers, op.q) = <<op.o>>
    /\ op.q \notin DOMAIN userAnswers

\* C6: while a set is open, the number of entries of userAnswers equals the
\* number of its questions that getQuestionStatus reports as answered.
C6_AnsweredCountAgrees ==
    currentExam # NoExam =>
        answeredCount =
            Cardinality({i \in 1..Len(Questions) : getQuestionStatus(Questions[i]).isAnswered})

\* one question is answered and the other was answered and emptied again
C6_Witness ==
    /\ SelectedActive("multiple")
    /\ op.q \in DOMAIN prevAnswers
    /\ op.q \notin DOMAIN userAnswers
    /\ answeredCount = 1
    /\ Len(Questions) = 2

\* C7: a start always yields a fresh session: first question, no answers,
\* zero elapsed time, not in review mode, the exam view of the picked set,
\* whatever the previous attempt left behind.
C7_StartIsFresh ==
    op.name = "start" =>
        /\ currentQuestionIdx = 0
        /\ userAnswers = EmptyAnswers
        /\ timeElapsed = 0
        /\ ~isReviewMode
        /\ view = "exam"
        /\ currentExam = op.exam
        /\ timerRunning

\* a start that followed an attempt with answers
C7_Witness ==
    /\ op.name = "start"
    /\ prevAnswers # EmptyAnswers
    /\ op.exam = 2

\* C8: a declined confirmation makes submit a no-op on the whole state; an
\* accepted one puts the session in review mode; and review mode is entered
\* in no other way.
C8_SubmitConfirmation ==
    /\ [][op'.name = "submit" =>
            IF op'.ok
            THEN isReviewMode' /\ view' = "result"
            ELSE UNCHANGED appState]_vars
    /\ [][(~isReviewMode /\ isReviewMode') => (op'.name = "submit" /\ op'.ok)]_vars

\* a submit has been declined with answers given and time elapsed
C8_Witness ==
    /\ op.name = "submit"
    /\ ~op.ok
    /\ ~isReviewMode
    /\ view = "exam"
    /\ timerRunning
    /\ timeElapsed > 0
    /\ userAnswers # EmptyAnswers

\* C9: in review mode and whenever the exam view is not shown, no interval
\* is live and no tick is delivered; timeElapsed changes there only when a
\* new session is started from the home view.
C9_NoStaleTick ==
    /\ []((isReviewMode \/ view # "exam") => ~timerRunning)
    /\ [][(isReviewMode \/ view # "exam") =>
             /\ op'.name # "tick"
             /\ (timeElapsed' # timeElapsed => (view = "home" /\ op'.name = "start"))]_vars

\* the review of a submitted attempt whose timer had counted
C9_Witness ==
    /\ isReviewMode
    /\ view = "exam"
    /\ op.name = "review"
    /\ timeElapsed > 0
    /\ ~timerRunning

\* C10: timeElapsed equals the number of ticks delivered since the start,
\* whatever other events came in between, and does not change while the
\* review of an attempt is open.
C10_TicksCounted ==
    /\ [](timeElapsed = ticks)
    /\ [][op'.name = "tick" => timeElapsed' = timeElapsed + 1]_vars
    /\ [][(isReviewMode /\ view # "home") => timeElapsed' = timeElapsed]_vars

\* two ticks have been delivered in a session in which options were clicked
C10_Witness ==
    /\ op.name = "tick"
    /\ timeElapsed = 2
    /\ ticks = 2
    /\ userAnswers # EmptyAnswers
    /\ ~isReviewMode

\* the last event called handleReviewQuestion (palette button or Review
\* Answers), with index op.idx
Jumped == op.name \in {"goto", "review"}

\* C11 (as claimed): after handleReviewQuestion(index) the session is in
\* review mode at question index, as after submit followed by goTo(index).
C11_ReviewFromSubmits ==
    Jumped => (isReviewMode /\ currentQuestionIdx = op.idx)

\* C11 (amended): handleReviewQuestion(index) shows the exam view at question
\* index and leaves the mode, the answers and the elapsed time as they
\* were; the session is in review mode afterwards only if it was before,
\* as it is whenever the call comes from the result view.
C11_ReviewFromKeepsMode ==
    /\ [][op'.name \in {"goto", "review"} =>
            /\ currentQuestionIdx' = op'.idx
            /\ view' = "exam"
            /\ UNCHANGED <<isReviewMode, currentExam, userAnswers, timeElapsed>>]_vars
    /\ [](op.name = "review" => isReviewMode)

\* a palette jump to the second question of an attempt not yet submitted
C11_Witness ==
    /\ op.name = "goto"
    /\ op.idx = 1
    /\ currentQuestionIdx = 1
    /\ ~isReviewMode
    /\ timerRunning

\* C12: getQuestionStatus reports isCorrect exactly when the set of
\* selected options equals the set of correct answers, in whatever order
\* the options were selected.
C12_CorrectIffSetEqual ==
    currentExam # NoExam =>
        \A i \in 1..Len(Questions) :
            getQuestionStatus(Questions[i]).isCorrect
                <=> (AsSet(Selected(userAnswers, Questions[i].id))
                        = AsSet(Questions[i].correctAnswers))

\* the correct options of a question selected in the opposite order
C12_Witness ==
    /\ currentExam = 1
    /\ Selected(userAnswers, 102) = <<"C", "A">>
    /\ getQuestionStatus(Questions[2]).isCorrect
    /\ ~getQuestionStatus(Questions[1]).isCorrect

\* the percentage the claim asks for: 100 * c / t rounded to the nearest
\* integer, halves upwards
RoundedPercent(c, t) == (200 * c + t) \div (2 * t)

\* C13: the percentage shown is round(100 * correctCount / total) and lies
\* between 0 and 100, for every tally over a set with at least one
\* question.
C13_PercentageRounded ==
    shown # NotShown =>
        /\ shown = RoundedPercent(tally.correctCount, tally.totalQ)
        /\ 0 <= shown /\ shown <= 100

\* C14: a click on an option of question q changes at most the entry of q
\* in userAnswers; every other entry, the index, the elapsed time, the
\* mode, the view and the open set stay as they were.
C14_SelectFrame ==
    [][op'.name = "select" =>
          /\ \A k \in ((DOMAIN userAnswers) \cup (DOMAIN userAnswers')) \ {op'.q} :
                /\ k \in DOMAIN userAnswers
                /\ k \in DOMAIN userAnswers'
                /\ userAnswers'[k] = userAnswers[k]
          /\ UNCHANGED <<currentQuestionIdx, timeElapsed, isReviewMode,
                         currentExam, view>>]_vars

\* an option was clicked while another question had an answer
C14_Witness ==
    /\ op.name = "select"
    /\ ~isReviewMode
    /\ op.q = 101
    /\ 102 \in DOMAIN userAnswers
    /\ Selected(prevAnswers, 101) # Selected(userAnswers, 101)
    /\ timeElapsed > 0

\* C15: once the session is in review mode it stays there; review mode is
\* left only by the start of a new session.
C15_ReviewIsTerminal ==
    [][(isReviewMode /\ ~isReviewMode') => (op'.name = "start" /\ view = "home")]_vars

\* a step to the next question inside the review of a submitted attempt
C15_Witness ==
    /\ isReviewMode
    /\ view = "exam"
    /\ op.name = "next"
    /\ currentQuestionIdx = 1

\* C16: a jump sets the index to the one asked for, Next and Previous move
\* it by one inside the range, in review mode and outside it, and none of
\* them touches the answers or the elapsed time.
C16_GoToFrame ==
    /\ [][op'.name \in {"goto", "review"} => currentQuestionIdx' = op'.idx]_vars
    /\ [][(op'.name = "next" /\ currentQuestionIdx < Len(Questions) - 1)
             => currentQuestionIdx' = currentQuestionIdx + 1]_vars
    /\ [][(op'.name = "prev" /\ currentQuestionIdx > 0)
             => currentQuestionIdx' = currentQuestionIdx - 1]_vars
    /\ [][op'.name \in {"goto", "review", "next", "prev"}
             => UNCHANGED <<userAnswers, timeElapsed>>]_vars

\* a palette jump to the second question inside a review, with answers
\* given and time elapsed
C16_Witness ==
    /\ isReviewMode
    /\ op.name = "goto"
    /\ op.idx = 1
    /\ currentQuestionIdx = 1
    /\ userAnswers # EmptyAnswers
    /\ timeElapsed > 0

\* C17: while a set is open, the index is one of its questions.
C17_IndexInRange ==
    currentExam # NoExam =>
        (0 <= currentQuestionIdx /\ currentQuestionIdx < Len(Questions))

\* Next at the only question of a set
C17_Witness ==
    /\ op.name = "next"
    /\ currentExam = 2
    /\ currentQuestionIdx = 0

\* the step asks for an index outside the range: Next at the last question
\* or Previous at the first
OutOfRangeStep ==
    \/ (op'.name = "next" /\ currentQuestionIdx = Len(Questions) - 1)
    \/ (op'.name = "prev" /\ currentQuestionIdx = 0)

\* C18 (as claimed): a request for an index outside the range is not
\* silently ignored: it does not leave the application as it was.
C18_OutOfRangeNotIgnored ==
    [][OutOfRangeStep => appState' # appState]_vars

\* C18 (amended): Next at the last question and Previous at the first are
\* ignored, leaving the whole state as it was; a jump stores the index it
\* is given without a test, and is only ever given an index of the open
\* set.
C18_OutOfRangeIgnored ==
    /\ [][OutOfRangeStep => UNCHANGED appState]_vars
    /\ [](Jumped => (currentQuestionIdx = op.idx
                     /\ op.idx \in 0..(Len(EXAM_DATA[op.exam].questions) - 1)))

\* Previous at the first question of a set with two questions
C18_Witness ==
    /\ op.name = "prev"
    /\ currentExam = 1
    /\ currentQuestionIdx = 0
    /\ prevAnswers = userAnswers

\* C19: an interval is live exactly when the exam view is shown outside
\* review mode; while it is live and the count is below MaxTime a tick is
\* enabled, and with ticks delivered fairly the elapsed time goes on
\* increasing for as long as the session stays active.
C19_TimerRunsWhileActive ==
    /\ [](timerRunning <=> (view = "exam" /\ ~isReviewMode))
    /\ []((timerRunning /\ timeElapsed < MaxTime) => ENABLED Tick)
    /\ \A n \in 0..(MaxTime - 1) :
          (timerRunning /\ timeElapsed = n) ~> (~timerRunning \/ timeElapsed > n)

\* the first tick of an attempt has been delivered
C19_Witness ==
    /\ op.name = "tick"
    /\ timeElapsed = 1
    /\ timerRunning
    /\ view = "exam"
    /\ ~isReviewMode

\* C20: the result view is only shown in review mode, and while the results
\* or the review of an attempt are open the answers, the count of correct
\* answers and the percentage do not change.
C20_ScoreOnlyInReview ==
    /\ [](view = "result" => (isReviewMode /\ currentExam # NoExam))
    /\ [][(isReviewMode /\ currentExam # NoExam /\ currentExam' # NoExam) =>
             /\ userAnswers' = userAnswers
             /\ correctCount' = correctCount
             /\ score' = score]_vars

\* the results of an attempt with one of two questions right
C20_Witness ==
    /\ view = "result"
    /\ isReviewMode
    /\ currentExam = 1
    /\ correctCount = 1
    /\ score = 50

\* the rendering the table gives for a mode, a correctness and a selection
TableRendering(review, isCorrectOption, isSelected) ==
    CASE review /\ isCorrectOption                    -> "correct"
      [] review /\ ~isCorrectOption /\ isSelected     -> "incorrect-selected"
      [] review /\ ~isCorrectOption /\ ~isSelected    -> "neutral-dimmed"
      [] ~review /\ isSelected                        -> "selected"
      [] ~review /\ ~isSelected                       -> "default"

\* C21: whenever the exam view is shown, every option of the current
\* question is rendered as the table says for the mode, for whether the
\* option is a correct answer and for whether it is selected; outside
\* review mode the rendering does not depend on the correct answers.
C21_OptionRendering ==
    (view = "exam" /\ currentExam # NoExam) =>
        \A i \in 1..Len(currentQ.options) :
            LET o == currentQ.options[i] IN
            /\ getOptionClasses(o) =
                  TableRendering(isReviewMode,
                                 o \in AsSet(currentQ.correctAnswers),
                                 o \in AsSet(Selected(userAnswers, currentQ.id)))
            /\ ~isReviewMode => getOptionClasses(o) \in {"selected", "default"}

\* the review of a question of which a correct and a wrong option were
\* selected and another correct one was not
C21_Witness ==
    /\ view = "exam"
    /\ isReviewMode
    /\ currentExam = 1
    /\ currentQuestionIdx = 1
    /\ AsSet(Selected(userAnswers, 102)) = {"A", "B"}
    /\ getOptionClasses("A") = "correct"
    /\ getOptionClasses("B") = "incorrect-selected"
    /\ getOptionClasses("C") = "correct"

\* reading a rendered clock back
IsDigit(ch) == \E d \in 0..9 : Digit(d) = ch
DigitValue(ch) == CHOOSE d \in 0..9 : Digit(d) = ch
AllDigits(str) == \A i \in 1..Len(str) : IsDigit(str[i])
RECURSIVE NumberOf(_)
NumberOf(str) ==
    IF Len(str) = 0 THEN 0
    ELSE 10 * NumberOf(SubSeq(str, 1, Len(str) - 1)) + DigitValue(str[Len(str)])
Colons(str) == {i \in 1..Len(str) : str[i] = ":"}

\* str is MM:SS for the minutes mm and the seconds sec
IsMinSec(str, mm, sec) ==
    /\ Len(str) = 5
    /\ Colons(str) = {3}
    /\ AllDigits(SubSeq(str, 1, 2)) /\ NumberOf(SubSeq(str, 1, 2)) = mm
    /\ AllDigits(SubSeq(str, 4, 5)) /\ NumberOf(SubSeq(str, 4, 5)) = sec

\* C22: the clock rendered for s seconds is H:MM:SS when s >= 3600 and MM:SS
\* otherwise, with MM = (s mod 3600) div 60 and SS = s mod 60, both below
\* 60 and written with two digits, and H = s div 3600 written without
\* padding.
C22_FormatTime ==
    clock # NotRendered =>
        LET s == timeElapsed
            mm == (s % 3600) \div 60
            sec == s % 60
            n == Len(clock)
        IN /\ mm < 60 /\ sec < 60
           /\ IF s >= 3600
              THEN /\ n >= 7
                   /\ clock[n - 5] = ":"
                   /\ Cardinality(Colons(clock)) = 2
                   /\ IsMinSec(SubSeq(clock, n - 4, n), mm, sec)
                   /\ AllDigits(SubSeq(clock, 1, n - 6))
                   /\ clock[1] # "0"
                   /\ NumberOf(SubSeq(clock, 1, n - 6)) = s \div 3600
              ELSE IsMinSec(clock, mm, sec)
           /\ s = 65 => clock = <<"0", "1", ":", "0", "5">>
           /\ s = 3661 => clock = <<"1", ":", "0", "1", ":", "0", "1">>

\* the clock of one hour, one minute and one second
C22_Witness ==
    /\ timeElapsed = 3661
    /\ clock = <<"1", ":", "0", "1", ":", "0", "1">>

\* C23: while a set is open, every key of userAnswers is the id of one of
\* its questions and every stored array holds options of that question,
\* each at most once; so the entries are no more than the questions, and
\* submit asks with the counting message exactly when a question is
\* unanswered.
C23_AnswersWellFormed ==
    currentExam # NoExam =>
        /\ \A k \in DOMAIN userAnswers :
              \E i \in 1..Len(Questions) :
                 /\ Questions[i].id = k
                 /\ AsSet(userAnswers[k]) \subseteq AsSet(Questions[i].options)
                 /\ Cardinality(AsSet(userAnswers[k])) = Len(userAnswers[k])
        /\ answeredCount <= Len(Questions)
        /\ (submitPrompt = "answered-of-total")
              <=> (\E i \in 1..Len(Questions) : getQuestionStatus(Questions[i]).isSkipped)

\* a submit, declined, of an attempt with every question answered and
\* every option of the multiple-select question selected
C23_Witness ==
    /\ op.name = "submit"
    /\ ~op.ok
    /\ currentExam = 1
    /\ answeredCount = 2
    /\ Len(Selected(userAnswers, 102)) = 3
    /\ submitPrompt = "confirm-submission"

\* C24: outside review mode the back arrow leaves the exam only when the
\* confirmation is accepted, and a declined one leaves the whole state as
\* it was, the timer running; in review mode the back arrow leaves for the
\* home view whatever a confirmation would answer.
C24_BackNeedsConfirmation ==
    /\ [][op'.name = "back" =>
            IF isReviewMode \/ op'.ok
            THEN /\ view' = "home"
                 /\ currentExam' = NoExam
                 /\ ~timerRunning'
            ELSE UNCHANGED appState /\ timerRunning']_vars
    /\ [][(op'.name = "back" /\ ~isReviewMode) => (op'.ok <=> view' = "home")]_vars
    /\ [](op.name = "back" /\ ~op.ok => ~isReviewMode)

\* a declined quit of an attempt with answers given and time elapsed
C24_Witness ==
    /\ op.name = "back"
    /\ ~op.ok
    /\ view = "exam"
    /\ currentExam = 1
    /\ ~isReviewMode
    /\ timerRunning
    /\ timeElapsed > 0
    /\ userAnswers # EmptyAnswers
====
